---- MODULE Spec2Model ----
(***************************************************************************)
(* Model of tools/make-mo.py: a PO catalog parser (unescape, parse_po) and *)
(* a GNU MO encoder (make_mo), driven by the command-line entry point.     *)
(*                                                                         *)
(* A Python str is a sequence of characters (one-character strings), a     *)
(* Python bytes object and the output file are sequences of 0..255.        *)
(* None is the empty tuple and a set value v is the one-element tuple <<v>>.*)
(***************************************************************************)
EXTENDS Integers, Sequences, FiniteSets, TLC

VARIABLES
    pc,          \* position of the program
    argc,        \* len(sys.argv)
    po_state,    \* the input path: "ok", "missing" or "undecodable"
    po,          \* the lines the input file yields, line terminators included
    idx,         \* number of lines the for loop of parse_po has consumed
    pairs,       \* parse_po: pairs; make_mo: the parameter pairs
    cur_id,      \* parse_po: cur_id (None or <<str>>)
    cur_str,     \* parse_po: cur_str (None or <<str>>)
    in_id,       \* parse_po: in_id
    in_str,      \* parse_po: in_str
    payload,     \* the argument of the last call of unescape made by parse_po
    mo,          \* make_mo: its locals (pairs, N, O, T, S, H, metas, pos)
    can_write,   \* whether open(out_path, 'wb') succeeds
    disk,        \* the output path: None (no file) or <<its bytes>>
    out_opened,  \* whether the output path has been opened for writing
    stdout,      \* what the program printed
    us,          \* unescape: the argument s
    ur           \* unescape: the returned value (None before the return)

vars == <<pc, argc, po_state, po, idx, pairs, cur_id, cur_str, in_id, in_str,
          payload, mo, can_write, disk, out_opened, stdout, us, ur>>

parseVars == <<po, idx, pairs, cur_id, cur_str, in_id, in_str, payload>>
mainVars  == <<argc, po_state, stdout>>
moVars    == <<mo, can_write, disk, out_opened>>
unVars    == <<us, ur>>

----------------------------------------------------------------------------
(* Bounds *)

MaxLen   == 5    \* longest argument of unescape in SpecUnescape
MaxLines == 3    \* longest input file in SpecParse
MaxMainLines == 2 \* longest input file in Spec
MaxPairs == 3    \* longest pair list passed to make_mo in SpecMo

----------------------------------------------------------------------------
(* Characters, strings and bytes *)

None == <<>>
Some(v) == <<v>>

BSL == "\\"
QT  == "\""
LF  == "\n"
TAB == "\t"
CR  == "\r"
SP  == " "

\* ord(c) for the characters the model uses.
Ord(c) ==
    CASE c = TAB -> 9
      [] c = LF  -> 10
      [] c = CR  -> 13
      [] c = SP  -> 32
      [] c = QT  -> 34
      [] c = "#" -> 35
      [] c = BSL -> 92
      [] c = "a" -> 97
      [] c = "b" -> 98
      [] c = "d" -> 100
      [] c = "g" -> 103
      [] c = "i" -> 105
      [] c = "m" -> 109
      [] c = "n" -> 110
      [] c = "r" -> 114
      [] c = "s" -> 115
      [] c = "t" -> 116
      [] c = "x" -> 120
      [] c = "é" -> 233
      [] c = "€" -> 8364

\* c.encode('utf-8') for one character.
EncodeChar(c) ==
    LET cp == Ord(c) IN
    IF cp < 128 THEN <<cp>>
    ELSE IF cp < 2048 THEN <<192 + (cp \div 64), 128 + (cp % 64)>>
    ELSE <<224 + (cp \div 4096), 128 + ((cp \div 64) % 64), 128 + (cp % 64)>>

\* s.encode('utf-8').
RECURSIVE Encode(_)
Encode(s) ==
    IF s = <<>> THEN <<>> ELSE EncodeChar(Head(s)) \o Encode(Tail(s))

\* Python's a <= b on bytes: lexicographic on unsigned byte values, a proper
\* prefix being smaller.
RECURSIVE BytesLE(_, _)
BytesLE(a, b) ==
    IF a = <<>> THEN TRUE
    ELSE IF b = <<>> THEN FALSE
    ELSE IF Head(a) # Head(b) THEN Head(a) < Head(b)
    ELSE BytesLE(Tail(a), Tail(b))

\* All sequences over S of length at most n.
SeqsUpTo(S, n) == UNION {[1..k -> S] : k \in 0..n}

----------------------------------------------------------------------------
(* unescape *)

\* The loop of unescape with i and result as parameters (i is 0-based, as
\* in the source: s[i] is s[i + 1] here).
RECURSIVE UnescapeLoop(_, _, _)
UnescapeLoop(s, i, result) ==
    IF ~(i < Len(s)) THEN result
    ELSE IF s[i + 1] = BSL /\ i + 1 < Len(s) THEN
        LET c == s[i + 2] IN
        UnescapeLoop(s, i + 2,
            IF c = "n" THEN Append(result, LF)
            ELSE IF c = "t" THEN Append(result, TAB)
            ELSE IF c = "r" THEN Append(result, CR)
            ELSE IF c = QT THEN Append(result, QT)
            ELSE IF c = BSL THEN Append(result, BSL)
            ELSE Append(Append(result, BSL), c))
    ELSE UnescapeLoop(s, i + 1, Append(result, s[i + 1]))

\* A faulty loop: an unknown escape loses its backslash.
RECURSIVE UnescapeLoopDrop(_, _, _)
UnescapeLoopDrop(s, i, result) ==
    IF ~(i < Len(s)) THEN result
    ELSE IF s[i + 1] = BSL /\ i + 1 < Len(s) THEN
        LET c == s[i + 2] IN
        UnescapeLoopDrop(s, i + 2,
            IF c = "n" THEN Append(result, LF)
            ELSE IF c = "t" THEN Append(result, TAB)
            ELSE IF c = "r" THEN Append(result, CR)
            ELSE Append(result, c))
    ELSE UnescapeLoopDrop(s, i + 1, Append(result, s[i + 1]))

unescape_drop(s) == UnescapeLoopDrop(s, 0, <<>>)

unescape(s) == UnescapeLoop(s, 0, <<>>)

\* The characters unescape is exercised on.
EscAlphabet == {BSL, QT, "n", "t", "r", "a"}

InitUnescape ==
    /\ pc = "unescape"
    /\ us \in SeqsUpTo(EscAlphabet, MaxLen)
    /\ argc = 3 /\ po_state = "ok" /\ po = <<>> /\ idx = 0
    /\ pairs = <<>> /\ cur_id = None /\ cur_str = None
    /\ in_id = FALSE /\ in_str = FALSE /\ payload = None
    /\ mo = None /\ can_write = TRUE /\ disk = None /\ out_opened = FALSE
    /\ stdout = <<>> /\ ur = None

\* A call unescape(us) runs to its return statement.
UnescapeCall ==
    /\ pc = "unescape"
    /\ ur' = Some(unescape(us))
    /\ pc' = "unescape_done"
    /\ UNCHANGED <<us, parseVars, mainVars, moVars>>

NextUnescape == UnescapeCall

SpecUnescape == InitUnescape /\ [][NextUnescape]_vars

----------------------------------------------------------------------------
(* parse_po *)

\* line.rstrip('\r\n')
RECURSIVE rstrip(_)
rstrip(line) ==
    IF line # <<>> /\ line[Len(line)] \in {CR, LF}
    THEN rstrip(SubSeq(line, 1, Len(line) - 1))
    ELSE line

\* line.startswith(p)
startswith(line, p) ==
    Len(line) >= Len(p) /\ SubSeq(line, 1, Len(p)) = p

\* line.endswith(p)
endswith(line, p) ==
    Len(line) >= Len(p)
    /\ SubSeq(line, Len(line) - Len(p) + 1, Len(line)) = p

\* not line.strip(): the line holds white space only
IsBlank(line) == \A i \in 1..Len(line) : line[i] \in {SP, TAB, LF, CR}

\* line[a:-1]
SliceToLast(line, a) ==
    IF a + 1 <= Len(line) - 1 THEN SubSeq(line, a + 1, Len(line) - 1) ELSE <<>>

KwMsgid  == <<"m", "s", "g", "i", "d", SP>>
KwMsgstr == <<"m", "s", "g", "s", "t", "r", SP>>

\* The branch of the loop body a (stripped) line takes.
IsSkipped(line) == startswith(line, <<"#">>) \/ IsBlank(line)
IsMsgid(line)   == ~IsSkipped(line) /\ startswith(line, KwMsgid)
IsMsgstr(line)  == ~IsSkipped(line) /\ ~IsMsgid(line) /\ startswith(line, KwMsgstr)
IsCont(line)    == /\ ~IsSkipped(line) /\ ~IsMsgid(line) /\ ~IsMsgstr(line)
                   /\ startswith(line, <<QT>>) /\ endswith(line, <<QT>>)
IsOther(line)   == /\ ~IsSkipped(line) /\ ~IsMsgid(line) /\ ~IsMsgstr(line)
                   /\ ~IsCont(line)

\* The slice each branch passes to unescape.
MsgidArg(line)  == SliceToLast(line, 7)
MsgstrArg(line) == SliceToLast(line, 8)
ContArg(line)   == SliceToLast(line, 1)

\* A faulty save(): it does not look at cur_str.
save_unchecked(ps, id, str) ==
    IF id # None
    THEN Append(ps, <<id[1], IF str = None THEN <<>> ELSE str[1]>>)
    ELSE ps

\* save(): the value of pairs after the call.
save(ps, id, str) ==
    IF id # None /\ str # None THEN Append(ps, <<id[1], str[1]>>) ELSE ps

\* The line of the current iteration, after line 36.
Line == rstrip(po[idx + 1])

InLoop == pc = "parse_loop" /\ idx < Len(po)

ParseSkip ==
    /\ InLoop /\ IsSkipped(Line)
    /\ idx' = idx + 1
    /\ UNCHANGED <<pc, po, pairs, cur_id, cur_str, in_id, in_str, payload,
                   mainVars, moVars, unVars>>

ParseMsgid ==
    /\ InLoop /\ IsMsgid(Line)
    /\ pairs' = save(pairs, cur_id, cur_str)
    /\ payload' = Some(MsgidArg(Line))
    /\ cur_id' = Some(unescape(MsgidArg(Line)))
    /\ cur_str' = None
    /\ in_id' = TRUE
    /\ in_str' = FALSE
    /\ idx' = idx + 1
    /\ UNCHANGED <<pc, po, mainVars, moVars, unVars>>

\* A faulty msgstr branch: in_id stays set.
ParseMsgstrKeepsInId ==
    /\ InLoop /\ IsMsgstr(Line)
    /\ payload' = Some(MsgstrArg(Line))
    /\ cur_str' = Some(unescape(MsgstrArg(Line)))
    /\ in_str' = TRUE
    /\ idx' = idx + 1
    /\ UNCHANGED <<pc, po, pairs, cur_id, in_id, mainVars, moVars, unVars>>

ParseMsgstr ==
    /\ InLoop /\ IsMsgstr(Line)
    /\ payload' = Some(MsgstrArg(Line))
    /\ cur_str' = Some(unescape(MsgstrArg(Line)))
    /\ in_id' = FALSE
    /\ in_str' = TRUE
    /\ idx' = idx + 1
    /\ UNCHANGED <<pc, po, pairs, cur_id, mainVars, moVars, unVars>>

\* A faulty continuation branch: it always extends cur_id when it is set.
ParseContToId ==
    /\ InLoop /\ IsCont(Line)
    /\ payload' = Some(ContArg(Line))
    /\ LET val == unescape(ContArg(Line)) IN
       IF cur_id # None
       THEN cur_id' = Some(cur_id[1] \o val) /\ cur_str' = cur_str
       ELSE UNCHANGED <<cur_id, cur_str>>
    /\ idx' = idx + 1
    /\ UNCHANGED <<pc, po, pairs, in_id, in_str, mainVars, moVars, unVars>>

\* cur_id += val and cur_str += val raise TypeError on None; the branch is
\* then left at pc = "type_error".
ParseCont ==
    /\ InLoop /\ IsCont(Line)
    /\ payload' = Some(ContArg(Line))
    /\ LET val == unescape(ContArg(Line)) IN
       IF in_id THEN
           IF cur_id = None
           THEN pc' = "type_error" /\ UNCHANGED <<cur_id, cur_str, idx>>
           ELSE /\ cur_id' = Some(cur_id[1] \o val)
                /\ idx' = idx + 1
                /\ UNCHANGED <<pc, cur_str>>
       ELSE IF in_str THEN
           IF cur_str = None
           THEN pc' = "type_error" /\ UNCHANGED <<cur_id, cur_str, idx>>
           ELSE /\ cur_str' = Some(cur_str[1] \o val)
                /\ idx' = idx + 1
                /\ UNCHANGED <<pc, cur_id>>
       ELSE idx' = idx + 1 /\ UNCHANGED <<pc, cur_id, cur_str>>
    /\ UNCHANGED <<po, pairs, in_id, in_str, mainVars, moVars, unVars>>

\* No branch matches: the line is ignored.
ParseOther ==
    /\ InLoop /\ IsOther(Line)
    /\ idx' = idx + 1
    /\ UNCHANGED <<pc, po, pairs, cur_id, cur_str, in_id, in_str, payload,
                   mainVars, moVars, unVars>>

\* The loop ends: the file is closed, save() runs and pairs is returned to
\* line 107, whose next statement is the call of make_mo.
ParseReturn ==
    /\ pc = "parse_loop" /\ idx = Len(po) /\ po_state = "ok"
    /\ pairs' = save(pairs, cur_id, cur_str)
    /\ pc' = "make_mo"
    /\ UNCHANGED <<po, idx, cur_id, cur_str, in_id, in_str, payload,
                   mainVars, moVars, unVars>>

\* Line bodies the input files are made of.
LnComment   == <<"#", "a">>
LnBlank     == <<SP>>
LnMsgidA    == KwMsgid \o <<QT, "a", QT>>
LnMsgidE    == KwMsgid \o <<QT, QT>>
LnMsgstrX   == KwMsgstr \o <<QT, "x", QT>>
LnMsgstrE   == KwMsgstr \o <<QT, QT>>
LnContB     == <<QT, "b", QT>>
LnContEsc   == <<QT, BSL, "n", QT>>
LnMsgid2Sp  == KwMsgid \o <<SP, QT, "a", QT>>
LnMsgstrTr  == KwMsgstr \o <<QT, "x", QT, SP>>
LnContTr    == <<QT, "b", QT, SP>>

LineBodies == {LnComment, LnBlank, LnMsgidA, LnMsgidE, LnMsgstrX, LnMsgstrE,
               LnContB, LnContEsc, LnMsgid2Sp, LnMsgstrTr, LnContTr}

\* What iterating the file yields: every line ends with LF, except the
\* last one of a file that does not end with a line terminator.
RawLines(bodies, nl) ==
    [i \in 1..Len(bodies) |->
        IF i < Len(bodies) \/ nl THEN Append(bodies[i], LF) ELSE bodies[i]]

InitParse ==
    /\ pc = "parse_loop"
    /\ \E bodies \in SeqsUpTo(LineBodies, MaxLines), nl \in BOOLEAN :
           po = RawLines(bodies, nl)
    /\ idx = 0 /\ pairs = <<>> /\ cur_id = None /\ cur_str = None
    /\ in_id = FALSE /\ in_str = FALSE /\ payload = None
    /\ argc = 3 /\ po_state = "ok"
    /\ mo = None /\ can_write = TRUE /\ disk = None /\ out_opened = FALSE
    /\ stdout = <<>> /\ us = <<>> /\ ur = None

NextParse ==
    \/ ParseSkip
    \/ ParseMsgid
    \/ ParseMsgstr
    \/ ParseCont
    \/ ParseOther
    \/ ParseReturn

SpecParse == InitParse /\ [][NextParse]_vars

----------------------------------------------------------------------------
(* make_mo *)

\* A faulty filter: the header entry is dropped when its value is empty.
KeepTranslatedOnly(p) == p[2] # <<>>

\* The condition of the list comprehension of line 59: v or k == ''.
Keep(p) == p[2] # <<>> \/ p[1] = <<>>

FilterPairs(ps) == SelectSeq(ps, Keep)

\* Where a stable sort puts p in the sorted list srt: after every element
\* whose key is not greater.
InsertByKey(srt, p) ==
    LET c == Cardinality({i \in 1..Len(srt) :
                             BytesLE(Encode(srt[i][1]), Encode(p[1]))})
    IN SubSeq(srt, 1, c) \o <<p>> \o SubSeq(srt, c + 1, Len(srt))

RECURSIVE SortLoop(_)
SortLoop(ps) ==
    IF ps = <<>> THEN <<>>
    ELSE InsertByKey(SortLoop(SubSeq(ps, 1, Len(ps) - 1)), ps[Len(ps)])

\* A faulty sort: the list is left in input order.
SortPairsMissing(ps) == ps

\* pairs.sort(key=lambda x: x[0].encode('utf-8')): stable, ascending.
SortPairs(ps) == SortLoop(ps)

\* A faulty layout: the hash table offset counts 4 bytes per table entry.
LayoutShortTable(N) ==
    [N |-> N, O |-> 28, T |-> 28 + N * 8, S |-> 0, H |-> 28 + N * 8 + N * 4]

\* Lines 63-67.
Layout(N) ==
    LET O == 28
        T == O + N * 8
        S == 0
        H == T + N * 8
    IN [N |-> N, O |-> O, T |-> T, S |-> S, H |-> H]

RECURSIVE MetaLoop(_, _)
MetaLoop(strs, pos) ==
    IF strs = <<>> THEN <<>>
    ELSE LET b == Encode(Head(strs)) IN
         <<<<Len(b), pos>>>> \o MetaLoop(Tail(strs), pos + Len(b) + 1)

RECURSIVE MetaLoopNoNul(_, _)
MetaLoopNoNul(strs, pos) ==
    IF strs = <<>> THEN <<>>
    ELSE LET b == Encode(Head(strs)) IN
         <<<<Len(b), pos>>>> \o MetaLoopNoNul(Tail(strs), pos + Len(b))

\* A faulty offset loop: the NUL terminator is not counted.
MetaNoNul(strs, pos) == MetaLoopNoNul(strs, pos)

\* The (length, offset) list built by the loops of lines 72-75 and 78-81
\* for the strings strs, the first one placed at pos.
Meta(strs, pos) == MetaLoop(strs, pos)

\* The value of pos after such a loop.
RECURSIVE EndPos(_, _)
EndPos(strs, pos) ==
    IF strs = <<>> THEN pos
    ELSE EndPos(Tail(strs), pos + Len(Encode(Head(strs))) + 1)

\* struct.pack('<I', n) for 0 <= n < 2^31.
Pack32(n) ==
    <<n % 256, (n \div 256) % 256, (n \div 65536) % 256,
      (n \div 16777216) % 256>>

\* struct.pack('<I', 0x950412de)
MagicBytes == <<222, 18, 4, 149>>

\* struct.pack('<7I', 0x950412de, 0, N, O, T, S, H)
HeaderBytes(l) ==
    MagicBytes \o Pack32(0) \o Pack32(l.N) \o Pack32(l.O) \o Pack32(l.T)
        \o Pack32(l.S) \o Pack32(l.H)

\* The writes of lines 87-88 and 90-91.
RECURSIVE TableBytes(_)
TableBytes(meta) ==
    IF meta = <<>> THEN <<>>
    ELSE Pack32(Head(meta)[1]) \o Pack32(Head(meta)[2]) \o TableBytes(Tail(meta))

\* The writes of lines 93-94 and 96-97.
RECURSIVE DataBytes(_)
DataBytes(strs) ==
    IF strs = <<>> THEN <<>>
    ELSE Encode(Head(strs)) \o <<0>> \o DataBytes(Tail(strs))

Keys(ps) == [i \in 1..Len(ps) |-> ps[i][1]]
Vals(ps) == [i \in 1..Len(ps) |-> ps[i][2]]

\* Lines 59-81: filter, sort, layout and the two offset loops.
MakeMoLayout ==
    /\ pc = "make_mo"
    /\ LET ps == SortPairs(FilterPairs(pairs))
           l  == Layout(Len(ps))
       IN mo' = Some([pairs      |-> ps,
                      layout     |-> l,
                      orig_meta  |-> Meta(Keys(ps), l.H),
                      trans_meta |-> Meta(Vals(ps), EndPos(Keys(ps), l.H)),
                      pos        |-> EndPos(Vals(ps), EndPos(Keys(ps), l.H))])
    /\ pc' = "mo_open"
    /\ UNCHANGED <<parseVars, mainVars, can_write, disk, out_opened, unVars>>

\* Lines 83-97: the output path is opened (created or truncated) and the
\* header, the two tables and the string data are written.
MakeMoWrite ==
    /\ pc = "mo_open" /\ can_write
    /\ out_opened' = TRUE
    /\ disk' = Some(HeaderBytes(mo[1].layout)
                    \o TableBytes(mo[1].orig_meta)
                    \o TableBytes(mo[1].trans_meta)
                    \o DataBytes(Keys(mo[1].pairs))
                    \o DataBytes(Vals(mo[1].pairs)))
    /\ pc' = "mo_print"
    /\ UNCHANGED <<parseVars, mainVars, mo, can_write, unVars>>

\* Line 83 raises: the output path cannot be opened for writing.
MakeMoOpenFail ==
    /\ pc = "mo_open" /\ ~can_write
    /\ pc' = "exit_output_error"
    /\ UNCHANGED <<parseVars, mainVars, moVars, unVars>>

\* Line 99.
MakeMoPrint ==
    /\ pc = "mo_print"
    /\ stdout' = Append(stdout, <<"Generated", mo[1].layout.N, mo[1].pos>>)
    /\ pc' = "exit_ok"
    /\ UNCHANGED <<parseVars, argc, po_state, moVars, unVars>>

\* The strings of the pair lists make_mo is exercised on.
MoKeys == {<<>>, <<"a">>, <<"a", "b">>, <<"é">>}
MoVals == {<<>>, <<"x">>, <<"€">>}

InitMo ==
    /\ pc = "make_mo"
    /\ pairs \in SeqsUpTo(MoKeys \X MoVals, MaxPairs)
    /\ can_write \in BOOLEAN
    /\ po = <<>> /\ idx = 0 /\ cur_id = None /\ cur_str = None
    /\ in_id = FALSE /\ in_str = FALSE /\ payload = None
    /\ argc = 3 /\ po_state = "ok"
    /\ mo = None /\ disk = None /\ out_opened = FALSE
    /\ stdout = <<>> /\ us = <<>> /\ ur = None

NextMo ==
    \/ MakeMoLayout
    \/ MakeMoWrite
    \/ MakeMoOpenFail
    \/ MakeMoPrint

SpecMo == InitMo /\ [][NextMo]_vars

----------------------------------------------------------------------------
(* The command-line program *)

\* A faulty argument check: the usage message is printed but the program
\* goes on.
MainUsageNoExit ==
    /\ pc = "main" /\ argc # 3
    /\ stdout' = Append(stdout, <<"Usage">>)
    /\ pc' = "parse_po"
    /\ UNCHANGED <<parseVars, argc, po_state, moVars, unVars>>

\* Lines 103-105: wrong argument count, usage message, exit status 1.
MainUsage ==
    /\ pc = "main" /\ argc # 3
    /\ stdout' = Append(stdout, <<"Usage">>)
    /\ pc' = "exit_usage"
    /\ UNCHANGED <<parseVars, argc, po_state, moVars, unVars>>

\* Lines 103, 106-107: two arguments, parse_po is called.
MainArgsOk ==
    /\ pc = "main" /\ argc = 3
    /\ pc' = "parse_po"
    /\ UNCHANGED <<parseVars, mainVars, moVars, unVars>>

\* Line 34: the input is opened.
ParseOpen ==
    /\ pc = "parse_po" /\ po_state # "missing"
    /\ pc' = "parse_loop"
    /\ UNCHANGED <<parseVars, mainVars, moVars, unVars>>

\* Line 34 raises: the input cannot be opened.
ParseOpenFail ==
    /\ pc = "parse_po" /\ po_state = "missing"
    /\ pc' = "exit_input_error"
    /\ UNCHANGED <<parseVars, mainVars, moVars, unVars>>

\* Line 35 raises: the input is not UTF-8 from some line on.
ParseReadFail ==
    /\ pc = "parse_loop" /\ po_state = "undecodable"
    /\ pc' = "exit_input_error"
    /\ UNCHANGED <<parseVars, mainVars, moVars, unVars>>

\* Line bodies of the input files of the whole program.
MainLineBodies == {LnComment, LnMsgidA, LnMsgidE, LnMsgstrX, LnMsgstrE, LnContB,
                   LnContTr}

\* A file that is already at the output path.
OldFile == Some(<<1, 2, 3>>)

Init ==
    /\ pc = "main"
    /\ argc \in 2..4
    /\ po_state \in {"ok", "missing", "undecodable"}
    /\ \E bodies \in SeqsUpTo(MainLineBodies, MaxMainLines) :
           po = RawLines(bodies, TRUE)
    /\ can_write \in BOOLEAN
    /\ disk \in {None, OldFile}
    /\ idx = 0 /\ pairs = <<>> /\ cur_id = None /\ cur_str = None
    /\ in_id = FALSE /\ in_str = FALSE /\ payload = None
    /\ mo = None /\ out_opened = FALSE
    /\ stdout = <<>> /\ us = <<>> /\ ur = None

Next ==
    \/ MainUsage
    \/ MainArgsOk
    \/ ParseOpen
    \/ ParseOpenFail
    \/ ParseReadFail
    \/ ParseSkip
    \/ ParseMsgid
    \/ ParseMsgstr
    \/ ParseCont
    \/ ParseOther
    \/ ParseReturn
    \/ MakeMoLayout
    \/ MakeMoWrite
    \/ MakeMoOpenFail
    \/ MakeMoPrint

Spec == Init /\ [][Next]_vars

----------------------------------------------------------------------------
(* Properties of parse_po *)

\* The lines read so far and the lines of the whole file, after line 36.
LinesRead == [i \in 1..idx |-> rstrip(po[i])]
AllLines  == [i \in 1..Len(po) |-> rstrip(po[i])]

\* parse_po has returned.
Returned == pc \notin {"parse_loop", "type_error"}

IsKeyword(l) == IsMsgid(l) \/ IsMsgstr(l)

Max(S) == CHOOSE x \in S : \A y \in S : y <= x
Min(S) == CHOOSE x \in S : \A y \in S : x <= y

LastMsgid(h)   == Max({0} \cup {i \in 1..Len(h) : IsMsgid(h[i])})
LastMsgstr(h)  == Max({0} \cup {i \in 1..Len(h) : IsMsgstr(h[i])})
LastKeyword(h) == Max({0} \cup {i \in 1..Len(h) : IsKeyword(h[i])})
NextKeyword(h, k) == Min({Len(h) + 1} \cup {i \in (k + 1)..Len(h) : IsKeyword(h[i])})
NextMsgid(h, k)   == Min({Len(h) + 1} \cup {i \in (k + 1)..Len(h) : IsMsgid(h[i])})

\* What a line contributes to the field being accumulated.
PieceOf(l) ==
    IF IsMsgid(l) THEN unescape(MsgidArg(l))
    ELSE IF IsMsgstr(l) THEN unescape(MsgstrArg(l))
    ELSE IF IsCont(l) THEN unescape(ContArg(l))
    ELSE <<>>

\* The concatenation, in file order, of the pieces of lines k..e.
RECURSIVE FieldFrom(_, _, _)
FieldFrom(h, k, e) ==
    IF k > e THEN <<>> ELSE PieceOf(h[k]) \o FieldFrom(h, k + 1, e)

\* The original string after the lines h: that of the last msgid line, up to
\* the keyword line that follows it.
ExpectedId(h) ==
    LET m == LastMsgid(h) IN
    IF m = 0 THEN None ELSE Some(FieldFrom(h, m, NextKeyword(h, m) - 1))

\* The translated string after the lines h: that of the last msgstr line,
\* unless a msgid line came after it.
ExpectedStr(h) ==
    LET m == LastMsgid(h)
        s == LastMsgstr(h)
    IN IF s = 0 \/ s < m THEN None ELSE Some(FieldFrom(h, s, Len(h)))

\* The entries of the msgid lines of h from line i on, in file order: one
\* for each msgid line that has a msgstr line before the next msgid line;
\* the last msgid line counts only once the file has ended (final).
RECURSIVE EntriesFrom(_, _, _)
EntriesFrom(h, i, final) ==
    IF i > Len(h) THEN <<>>
    ELSE IF ~IsMsgid(h[i]) THEN EntriesFrom(h, i + 1, final)
    ELSE LET e      == NextMsgid(h, i)
             closed == e <= Len(h) \/ final
             has    == \E j \in (i + 1)..(e - 1) : IsMsgstr(h[j])
             pre    == SubSeq(h, 1, e - 1)
         IN (IF closed /\ has
             THEN <<<<ExpectedId(pre)[1], ExpectedStr(pre)[1]>>>>
             ELSE <<>>) \o EntriesFrom(h, e, final)

BetweenQuotes(l) ==
    LET Q == {i \in 1..Len(l) : l[i] = QT} IN
    IF Q = {} THEN <<>> ELSE SubSeq(l, Min(Q) + 1, Max(Q) - 1)

\* C6: the value passed to unescape for a msgid, msgstr or continuation
\* line is the text between the first and the last quote character of
\* that line.
C6_PayloadBetweenQuotes ==
    (idx > 0 /\ (IsKeyword(LinesRead[idx]) \/ IsCont(LinesRead[idx])))
        => payload = Some(BetweenQuotes(LinesRead[idx]))

\* C9: the original and the translated string are the concatenation, in file
\* order, of the unescaped payloads of the keyword line that started them
\* and of the bare quoted lines up to the next keyword line; the
\* accumulation mode is that of the last keyword line; skipped lines change
\* nothing, and a bare quoted line before any keyword line is discarded.
C9_FieldsAreConcatenations ==
    LET h == LinesRead
        k == LastKeyword(h)
    IN /\ cur_id = ExpectedId(h)
       /\ cur_str = ExpectedStr(h)
       /\ in_id = (k > 0 /\ IsMsgid(h[k]))
       /\ in_str = (k > 0 /\ IsMsgstr(h[k]))

C9_Witness ==
    /\ LinesRead = <<LnMsgidA, LnComment, LnContB>>
    /\ cur_id = Some(<<"a", "b">>)

\* C10: in_id and in_str are never both set, each is set only while its
\* field is set, and no continuation line raises an error.
C10_ModeInvariant ==
    /\ ~(in_id /\ in_str)
    /\ in_id => cur_id # None
    /\ in_str => cur_str # None
    /\ pc # "type_error"

C10_Witness ==
    /\ idx > 0 /\ IsCont(LinesRead[idx])
    /\ in_str /\ cur_str = Some(<<"x", "b">>)

----------------------------------------------------------------------------
(* Properties of make_mo: the written file is read back byte by byte *)

Written == out_opened /\ disk # None
File    == disk[1]

\* The little-endian 32-bit integer at byte offset off of f.
U32(f, off) ==
    f[off + 1] + 256 * f[off + 2] + 65536 * f[off + 3] + 16777216 * f[off + 4]

FileN == U32(File, 8)
FileO == U32(File, 12)
FileT == U32(File, 16)

\* Entry i (from 1) of the table at offset tbl, as <<length, offset>>.
TableEntry(f, tbl, i) == <<U32(f, tbl + 8 * (i - 1)), U32(f, tbl + 8 * (i - 1) + 4)>>
OrigEntry(i)  == TableEntry(File, FileO, i)
TransEntry(i) == TableEntry(File, FileT, i)

\* The bytes a table entry addresses.
StrAt(f, e) == SubSeq(f, e[2] + 1, e[2] + e[1])

\* What a reader of the file decodes.
Decoded == [i \in 1..FileN |-> <<StrAt(File, OrigEntry(i)), StrAt(File, TransEntry(i))>>]

EncodePair(p) == <<Encode(p[1]), Encode(p[2])>>
EncodedInput  == [i \in 1..Len(pairs) |-> EncodePair(pairs[i])]

\* A pair of the input that is to be encoded.
Survives(p) == p[2] # <<>> \/ p[1] = <<>>
Survivors   == {i \in 1..Len(pairs) : Survives(pairs[i])}

Count(sq, x) == Cardinality({i \in 1..Len(sq) : sq[i] = x})

\* The position of input pair j among the survivors in the order of the
\* original's bytes, equal originals staying in input order.
Rank(j) ==
    Cardinality({i \in Survivors :
        \/ ~BytesLE(Encode(pairs[j][1]), Encode(pairs[i][1]))
        \/ (Encode(pairs[i][1]) = Encode(pairs[j][1]) /\ i <= j)})

\* The index in the input of the i-th sorted surviving pair.
SortedSurvivor(i) == CHOOSE j \in Survivors : Rank(j) = i

\* The bytes of all survivors' strings, one NUL each.
RECURSIVE DataSize(_)
DataSize(S) ==
    IF S = {} THEN 0
    ELSE LET j == CHOOSE x \in S : TRUE IN
         Len(Encode(pairs[j][1])) + 1 + Len(Encode(pairs[j][2])) + 1
             + DataSize(S \ {j})

\* C1: the originals addressed by adjacent entries of the original-strings
\* table of the written file are in non-decreasing byte order.
C1_TableSorted ==
    Written =>
        \A i \in 1..(FileN - 1) :
            BytesLE(StrAt(File, OrigEntry(i)), StrAt(File, OrigEntry(i + 1)))

C1_Witness ==
    /\ Written
    /\ pairs = << <<<<"é">>, <<"x">>>>, <<<<"a">>, <<"x">>>>, <<<<>>, <<>>>> >>
    /\ StrAt(File, OrigEntry(1)) = <<>>
    /\ StrAt(File, OrigEntry(2)) = <<97>>
    /\ StrAt(File, OrigEntry(3)) = <<195, 169>>

\* C2: the file encodes exactly the input pairs whose translation is not
\* empty or whose original is empty, each as often as it occurs in the
\* input, and the entry count of the header is their number.
C2_EncodesSurvivors ==
    Written =>
        /\ FileN = Cardinality(Survivors)
        /\ \A i \in 1..Len(pairs) :
              Count(Decoded, EncodePair(pairs[i])) =
                  IF Survives(pairs[i])
                  THEN Count(EncodedInput, EncodePair(pairs[i]))
                  ELSE 0

C2_Witness ==
    /\ Written
    /\ pairs = << <<<<"a">>, <<>>>>, <<<<>>, <<>>>>, <<<<"a">>, <<"x">>>> >>
    /\ FileN = 2

\* The bytes of the file a table entry covers, NUL included.
Region(e) == e[2]..(e[2] + e[1])
AllEntries == {<<"o", i>> : i \in 1..FileN} \cup {<<"t", i>> : i \in 1..FileN}
EntryOf(x) == IF x[1] = "o" THEN OrigEntry(x[2]) ELSE TransEntry(x[2])

\* The string an entry must address, with e its (length, offset).
Addresses(e, str) ==
    /\ e[1] = Len(Encode(str))
    /\ e[2] + e[1] + 1 <= Len(File)
    /\ StrAt(File, e) = Encode(str)
    /\ File[e[2] + e[1] + 1] = 0

\* C3: entry i of the original table and entry i of the translated table
\* address the original and the translation of the i-th sorted surviving
\* pair, each followed by a NUL, and no two addressed regions overlap.
C3_EntriesAddressStrings ==
    Written =>
        /\ FileN = Cardinality(Survivors)
        /\ \A i \in 1..FileN :
              /\ Addresses(OrigEntry(i), pairs[SortedSurvivor(i)][1])
              /\ Addresses(TransEntry(i), pairs[SortedSurvivor(i)][2])
        /\ \A x, y \in AllEntries :
              x # y => Region(EntryOf(x)) \cap Region(EntryOf(y)) = {}

C3_Witness ==
    /\ Written
    /\ pairs = << <<<<"é">>, <<"€">>>>, <<<<>>, <<>>>>, <<<<"a", "b">>, <<"x">>>> >>
    /\ Decoded = << <<<<>>, <<>>>>, <<<<97, 98>>, <<120>>>>,
                    <<<<195, 169>>, <<226, 130, 172>>>> >>

\* C4: the header fields, the size of the file and the printed size follow
\* from the number N of surviving pairs and the lengths of their strings.
C4_HeaderAndSize ==
    LET N    == Cardinality(Survivors)
        size == 28 + 16 * N + DataSize(Survivors)
    IN /\ Written =>
           /\ SubSeq(File, 1, 4) = MagicBytes
           /\ U32(File, 4) = 0
           /\ U32(File, 8) = N
           /\ U32(File, 12) = 28
           /\ U32(File, 16) = 28 + 8 * N
           /\ U32(File, 20) = 0
           /\ U32(File, 24) = 28 + 16 * N
           /\ Len(File) = size
           /\ N = 0 => Len(File) = 28
       /\ pc = "exit_ok" => stdout = << <<"Generated", N, size>> >>

C4_Witness ==
    /\ pc = "exit_ok"
    /\ pairs = << <<<<"é">>, <<"€">>>>, <<<<"a">>, <<>>>>, <<<<"a">>, <<"x">>>> >>
    /\ stdout = << <<"Generated", 2, 71>> >>

----------------------------------------------------------------------------
(* Properties of unescape *)

\* The replacement of an escape \c, as a string.
Escaped(c) ==
    CASE c = "n" -> <<LF>>
      [] c = "t" -> <<TAB>>
      [] c = "r" -> <<CR>>
      [] c = QT  -> <<QT>>
      [] c = BSL -> <<BSL>>
      [] OTHER   -> <<BSL, c>>

\* The string read from the left: a backslash takes the character after it
\* with it, a last backslash and any other character stand for themselves.
RECURSIVE Resolved(_)
Resolved(s) ==
    IF s = <<>> THEN <<>>
    ELSE IF Head(s) = BSL /\ Len(s) >= 2
         THEN Escaped(s[2]) \o Resolved(Tail(Tail(s)))
         ELSE <<Head(s)>> \o Resolved(Tail(s))

\* C7: unescape returns its argument with every escape \n, \t, \r, \" and
\* \\ replaced, every other backslash pair and a last backslash kept, and
\* every other character copied.
C7_UnescapeResolves ==
    pc = "unescape_done" => ur = Some(Resolved(us))

C7_Witness ==
    /\ pc = "unescape_done"
    /\ us = <<BSL, "n", BSL, "a", BSL>>
    /\ ur = Some(<<LF, BSL, "a", BSL>>)

----------------------------------------------------------------------------
(* Properties of the command-line program *)

\* C8: the output path is opened for writing only with two arguments and
\* after parse_po has read the whole input and returned; a run that ends
\* with the usage message or with an input failure leaves the output path
\* as it was.
C8_OutputAfterParse ==
    /\ out_opened =>
          /\ argc = 3
          /\ po_state = "ok"
          /\ idx = Len(po)
          /\ pc \in {"mo_print", "exit_ok"}
    /\ pc \in {"exit_usage", "exit_input_error"} =>
          /\ ~out_opened
          /\ disk \in {None, OldFile}

C8_Witness ==
    /\ pc = "exit_ok" /\ out_opened
    /\ disk \notin {None, OldFile}
    /\ Len(po) = 2 /\ Len(pairs) = 1

====
